---- MODULE Spec2Model ----
(***************************************************************************)
(* backend/scripts/hf_download.py: a command-line adapter around           *)
(* huggingface_hub.  One behaviour of this module is one run of the        *)
(* script: the module-level import guard, main(), the operation main()     *)
(* selects, and sys.exit(main()).                                          *)
(*                                                                         *)
(* Optional values (argparse's None, an unset environment variable) are    *)
(* None == <<>>; a present value v is Some(v) == <<v>>.                    *)
(***************************************************************************)
EXTENDS Integers, Sequences, FiniteSets, TLC

VARIABLES
    pc,            \* position of the run in the script
    hf_installed,  \* environment: is huggingface_hub importable
    HF_AVAILABLE,  \* the module global of lines 29/31
    argv,          \* the command line as argparse parsed it (never changed)
    args,          \* the argparse namespace, which main() updates in place
    environ,       \* os.environ restricted to the three variables main() reads
    disk,          \* the node found at the path snapshot_download returns
    events,        \* the JSON lines written to standard output, in order
    calls,         \* the calls made to huggingface_hub, in order
    ops,           \* the adapter operations entered, in order
    collab,        \* state of the call to huggingface_hub
    ret,           \* what main() returned
    exit_code      \* the exit status of the process, None until it exits

vars == <<pc, hf_installed, HF_AVAILABLE, argv, args, environ, disk, events,
          calls, ops, collab, ret, exit_code>>

----------------------------------------------------------------------------
(* Bounds of the model *)

MaxEntries == 3     \* entries in the top directory of a snapshot
MaxSize == 2        \* byte sizes of files are 1..MaxSize

----------------------------------------------------------------------------
(* Python values *)

None == <<>>
Some(v) == <<v>>

\* bool(v) for v an Optional[str]: None and "" are falsy
Truthy(v) == v # None /\ v[1] # ""

\* bool(v) for v an Optional pattern string, held as a sequence of characters
TruthyChars(v) == v # None /\ v[1] # <<>>

\* a or b
PyOr(a, b) == IF Truthy(a) THEN a ELSE b

\* os.environ.get(name)
environ_get(env, name) == env[name]

\* str.split(sep) on a sequence of characters
RECURSIVE split(_, _)
split(s, sep) ==
    IF \A i \in 1..Len(s) : s[i] # sep
    THEN <<s>>
    ELSE LET i == CHOOSE k \in 1..Len(s) :
                      s[k] = sep /\ \A j \in 1..(k - 1) : s[j] # sep
         IN  <<SubSeq(s, 1, i - 1)>> \o split(SubSeq(s, i + 1, Len(s)), sep)

NoReturn == [tag |-> "none"]
ReturnInt(n) == [tag |-> "int", val |-> n]
ReturnStr(s) == [tag |-> "str", val |-> s]

\* exit statuses: sys.exit(1) of the import guard, argparse's parser.error,
\* and the interpreter's status for an uncaught exception
ImportFailStatus == 1
ParserErrorStatus == 2
UncaughtStatus == 1

\* sys.exit(arg): None is status 0, an int is that status, anything else is
\* printed to stderr and the status is 1
SysExitStatus(r) ==
    CASE r.tag = "none" -> 0
      [] r.tag = "int"  -> r.val % 256
      [] OTHER          -> 1

----------------------------------------------------------------------------
(* The file system as os.path and os.walk see it *)

File(s) == [kind |-> "file", size |-> s]
Dir(es) == [kind |-> "dir", entries |-> es]
Link(t) == [kind |-> "link", target |-> t]
Missing == [kind |-> "missing"]

\* the node a path resolves to; link targets are never links themselves
Resolve(n) == IF n.kind = "link" THEN n.target ELSE n

islink(n) == n.kind = "link"
exists(n) == Resolve(n).kind # "missing"
isdir(n) == Resolve(n).kind = "dir"
getsize(n) == Resolve(n).size

\* os.walk(top, followlinks): the concatenation of the `files` lists of every
\* directory it visits.  scandir puts an entry in `dirs` when is_dir() (which
\* follows links) holds and in `files` otherwise; a directory of `dirs` is
\* visited when followlinks or it is not a link.  Errors of scandir are
\* ignored (onerror=None), so a top that is no directory yields nothing.
RECURSIVE walk(_, _)
RECURSIVE walk_dirs(_, _)
walk(top, followlinks) ==
    IF ~isdir(top)
    THEN <<>>
    ELSE LET es == Resolve(top).entries
             files == SelectSeq(es, LAMBDA e : ~isdir(e))
             dirs == SelectSeq(es, LAMBDA e : isdir(e))
         IN  files \o walk_dirs(dirs, followlinks)
walk_dirs(dirs, followlinks) ==
    IF dirs = <<>>
    THEN <<>>
    ELSE (IF followlinks \/ ~islink(Head(dirs))
          THEN walk(Head(dirs), followlinks)
          ELSE <<>>)
         \o walk_dirs(Tail(dirs), followlinks)

\* os.walk called with followlinks=True
os_walk_followlinks(top) == walk(top, TRUE)

\* os.walk(snapshot_path): followlinks defaults to False
os_walk(top) == walk(top, FALSE)

\* line 208: the files that are counted
Counted(n) == exists(n) /\ ~islink(n)

RECURSIVE SumSizes(_)
SumSizes(fs) == IF fs = <<>> THEN 0 ELSE getsize(Head(fs)) + SumSizes(Tail(fs))

\* lines 202-210: the files download_snapshot counts under snapshot_path
CountedFiles(top) ==
    IF exists(top) THEN SelectSeq(os_walk(top), Counted) ELSE <<>>

file_count_of(top) == Len(CountedFiles(top))
total_size_of(top) == SumSizes(CountedFiles(top))

----------------------------------------------------------------------------
(* Output events, lines 37-64.  ProgressReporter (lines 67-92), the only   *)
(* writer of "progress" events, is instantiated nowhere in the script, so   *)
(* no step of a run writes one.                                             *)

send_progress(evs, event_type, data) ==
    Append(evs, [type |-> event_type, data |-> data])

send_error(evs, message, code) ==
    Append(evs, [type |-> "error", data |-> [message |-> message, code |-> code]])

send_complete(evs, result) ==
    Append(evs, [type |-> "complete", data |-> result])

----------------------------------------------------------------------------
(* Keyword arguments handed to huggingface_hub *)

EmptyDict == [k \in {} |-> None]

\* the entry key -> v[1] when cond holds, nothing otherwise
Entry(cond, key, v) == IF cond THEN key :> v[1] ELSE EmptyDict

\* lines 119-131: dest is accepted and not used; local_dir is what is passed on
single_file_kwargs(repo_id, filename, dest, revision, token, cache_dir, local_dir) ==
    [repo_id |-> repo_id, filename |-> filename, revision |-> revision]
    @@ Entry(Truthy(token), "token", token)
    @@ Entry(Truthy(cache_dir), "cache_dir", cache_dir)
    @@ Entry(Truthy(local_dir), "local_dir", local_dir)
    @@ (IF Truthy(local_dir) THEN "local_dir_use_symlinks" :> FALSE ELSE EmptyDict)

\* lines 181-196
snapshot_kwargs(repo_id, dest, revision, token, cache_dir, allow_patterns, ignore_patterns) ==
    [repo_id |-> repo_id, revision |-> revision]
    @@ Entry(Truthy(token), "token", token)
    @@ Entry(Truthy(cache_dir), "cache_dir", cache_dir)
    @@ Entry(allow_patterns # None /\ allow_patterns[1] # <<>>, "allow_patterns", allow_patterns)
    @@ Entry(ignore_patterns # None /\ ignore_patterns[1] # <<>>, "ignore_patterns", ignore_patterns)
    @@ Entry(Truthy(dest), "local_dir", dest)
    @@ (IF Truthy(dest) THEN "local_dir_use_symlinks" :> FALSE ELSE EmptyDict)

\* the value a call received under key, None when the key was not passed
Passed(call, key) ==
    IF key \in DOMAIN call.kwargs THEN Some(call.kwargs[key]) ELSE None

----------------------------------------------------------------------------
(* Parameter resolution, lines 301-307 *)

\* the environment variable is never consulted
resolve_token_cli_only(token, env) == token

resolve_token(token, env) ==
    IF ~Truthy(token) THEN environ_get(env, "HF_TOKEN") ELSE token

\* the two environment variables consulted in the opposite order
resolve_cache_dir_swapped(cache_dir, env) ==
    IF ~Truthy(cache_dir)
    THEN PyOr(environ_get(env, "HUGGINGFACE_HUB_CACHE"), environ_get(env, "HF_HUB_CACHE"))
    ELSE cache_dir

resolve_cache_dir(cache_dir, env) ==
    IF ~Truthy(cache_dir)
    THEN PyOr(environ_get(env, "HF_HUB_CACHE"), environ_get(env, "HUGGINGFACE_HUB_CACHE"))
    ELSE cache_dir

\* lines 317-318
split_patterns(p) == IF TruthyChars(p) THEN Some(split(p[1], ",")) ELSE None

----------------------------------------------------------------------------
(* Inputs *)

Flags == BOOLEAN
RepoIds == {None, Some("gpt2")}
Filenames == {None, Some("config.json")}
Dests == {None, Some("./models")}
Revisions == {"main", "v1.0"}
Tokens == {None, Some(""), Some("cli-token")}
CacheDirs == {None, Some(""), Some("/cli-cache")}
AllowPatterns == {None, Some(<<"a", ",", "b">>)}
IgnorePatterns == {None, Some(<<"c">>)}

Argvs ==
    [check : Flags, url_only : Flags, snapshot : Flags,
     repo_id : RepoIds, filename : Filenames, dest : Dests,
     revision : Revisions, token : Tokens, cache_dir : CacheDirs,
     allow_patterns : AllowPatterns, ignore_patterns : IgnorePatterns]

Environs ==
    [HF_TOKEN : {None, Some(""), Some("env-token")},
     HF_HUB_CACHE : {None, Some(""), Some("/hub-cache")},
     HUGGINGFACE_HUB_CACHE : {None, Some(""), Some("/legacy-cache")}]

SeqUpTo(S, n) == UNION {[1..k -> S] : k \in 0..n}

Files == {File(s) : s \in 1..MaxSize}
Leaves == Files \cup {Link(Missing), Link(File(MaxSize))}
SubDirs == {Dir(es) : es \in SeqUpTo(Leaves, 1)}
LinkedDirs == {Link(Dir(<<File(1)>>))}
TopDirs == {Dir(es) : es \in SeqUpTo(Leaves \cup SubDirs \cup LinkedDirs, MaxEntries)}

\* what snapshot_download can leave at the path it returns: nothing, a
\* directory, or a link to a directory
Trees == {Missing} \cup TopDirs \cup {Link(Dir(<<File(1), Link(File(1))>>))}

SampleTree ==
    Dir(<<File(2), Dir(<<File(1)>>)>>)

\* what hf_hub_download can leave at the path it returns
FileResults == {Missing} \cup Files

\* the paths huggingface_hub returns
SnapshotPath == "/cache/models--gpt2/snapshots/main"
FilePath == "/cache/models--gpt2/snapshots/main/config.json"

Urls == {"https://huggingface.co/gpt2/resolve/main/config.json"}
Errors == {[message |-> "404 Client Error", code |-> "EntryNotFoundError"]}
OSErrors == {[message |-> "No such file or directory", code |-> "FileNotFoundError"]}

----------------------------------------------------------------------------
(* The run *)

InitWith(A, E, T) ==
    /\ pc = "import"
    /\ hf_installed \in BOOLEAN
    /\ HF_AVAILABLE = FALSE
    /\ argv \in A
    /\ args = argv
    /\ environ \in E
    /\ disk \in T
    /\ events = <<>>
    /\ calls = <<>>
    /\ ops = <<>>
    /\ collab = "idle"
    /\ ret = NoReturn
    /\ exit_code = None

Init == InitWith(Argvs, Environs, {SampleTree})

\* lines 26-29: the import succeeds
ImportOk ==
    /\ pc = "import"
    /\ hf_installed
    /\ HF_AVAILABLE' = TRUE
    /\ pc' = "main"
    /\ UNCHANGED <<hf_installed, argv, args, environ, disk, events, calls, ops,
                   collab, ret, exit_code>>

\* lines 30-34: ImportError, a message on stderr and sys.exit(1)
ImportFail ==
    /\ pc = "import"
    /\ ~hf_installed
    /\ HF_AVAILABLE' = FALSE
    /\ exit_code' = Some(ImportFailStatus)
    /\ pc' = "exited"
    /\ UNCHANGED <<hf_installed, argv, args, environ, disk, events, calls, ops,
                   collab, ret>>

\* parser.error(...): a message on stderr and SystemExit(2)
ParserError ==
    /\ exit_code' = Some(ParserErrorStatus)
    /\ pc' = "exited"
    /\ UNCHANGED <<hf_installed, HF_AVAILABLE, argv, args, environ, disk, events,
                   calls, ops, collab, ret>>

\* lines 294-296 and check_available, lines 245-250
CheckMode ==
    /\ pc = "main"
    /\ args.check
    /\ ops' = Append(ops, "check_available")
    /\ events' = send_complete(events, [available |-> HF_AVAILABLE, version |-> None])
    /\ ret' = ReturnInt(0)
    /\ pc' = "returned"
    /\ UNCHANGED <<hf_installed, HF_AVAILABLE, argv, args, environ, disk, calls,
                   collab, exit_code>>

\* lines 298-299
RepoIdRequired ==
    /\ pc = "main"
    /\ ~args.check
    /\ ~Truthy(args.repo_id)
    /\ ParserError

\* lines 301-307
ResolveDefaults ==
    /\ pc = "main"
    /\ ~args.check
    /\ Truthy(args.repo_id)
    /\ args' = [args EXCEPT !.token = resolve_token(@, environ),
                            !.cache_dir = resolve_cache_dir(@, environ)]
    /\ pc' = "dispatch"
    /\ UNCHANGED <<hf_installed, HF_AVAILABLE, argv, environ, disk, events, calls,
                   ops, collab, ret, exit_code>>

\* lines 310-312
UrlOnlyFilenameRequired ==
    /\ pc = "dispatch"
    /\ args.url_only
    /\ ~Truthy(args.filename)
    /\ ParserError

\* line 313 and get_file_url up to the call of line 233
GetFileUrlCall ==
    /\ pc = "dispatch"
    /\ args.url_only
    /\ Truthy(args.filename)
    /\ ops' = Append(ops, "get_file_url")
    /\ calls' = Append(calls, [fn |-> "hf_hub_url",
                               kwargs |-> [repo_id |-> args.repo_id[1],
                                           filename |-> args.filename[1],
                                           revision |-> args.revision]])
    /\ collab' = "called"
    /\ pc' = "in_hf_hub_url"
    /\ UNCHANGED <<hf_installed, HF_AVAILABLE, argv, args, environ, disk, events,
                   ret, exit_code>>

\* lines 234-239 and the return of line 313: main returns the URL
GetFileUrlReturn ==
    /\ pc = "in_hf_hub_url"
    /\ \E url \in Urls :
          /\ events' = send_complete(events, [url |-> url,
                                              repo_id |-> args.repo_id[1],
                                              filename |-> args.filename[1]])
          /\ ret' = ReturnStr(url)
    /\ collab' = "returned"
    /\ pc' = "returned"
    /\ UNCHANGED <<hf_installed, HF_AVAILABLE, argv, args, environ, disk, calls,
                   ops, exit_code>>

\* except Exception: raise, with the error event forgotten
ReraiseWithoutEvent(e) ==
    /\ events' = events
    /\ pc' = "raised"
    /\ UNCHANGED <<hf_installed, HF_AVAILABLE, argv, args, environ, disk, calls,
                   ops, ret, exit_code>>

\* except Exception: send_error(...), with the raise forgotten: the
\* operation returns None and main goes on to return 0
ErrorEventWithoutRaise(e) ==
    /\ events' = send_error(events, e.message, e.code)
    /\ ret' = ReturnInt(0)
    /\ pc' = "returned"
    /\ UNCHANGED <<hf_installed, HF_AVAILABLE, argv, args, environ, disk, calls,
                   ops, exit_code>>

\* except Exception: send_error(...); raise
Reraise(e) ==
    /\ events' = send_error(events, e.message, e.code)
    /\ pc' = "raised"
    /\ UNCHANGED <<hf_installed, HF_AVAILABLE, argv, args, environ, disk, calls,
                   ops, ret, exit_code>>

\* lines 240-242
GetFileUrlRaise ==
    /\ pc = "in_hf_hub_url"
    /\ collab' = "raised"
    /\ \E e \in Errors : Reraise(e)

\* lines 316-327 and download_snapshot up to the call of line 199
SnapshotBegin ==
    /\ pc = "dispatch"
    /\ ~args.url_only
    /\ args.snapshot
    /\ ops' = Append(ops, "download_snapshot")
    /\ events' = send_progress(events, "start",
                               [repo_id |-> args.repo_id[1],
                                revision |-> args.revision,
                                type |-> "snapshot"])
    /\ calls' = Append(calls,
                       [fn |-> "snapshot_download",
                        kwargs |-> snapshot_kwargs(args.repo_id[1], args.dest,
                                       args.revision, args.token, args.cache_dir,
                                       split_patterns(args.allow_patterns),
                                       split_patterns(args.ignore_patterns))])
    /\ collab' = "called"
    /\ pc' = "in_snapshot_download"
    /\ UNCHANGED <<hf_installed, HF_AVAILABLE, argv, args, environ, disk, ret,
                   exit_code>>

\* lines 201-223 and the return of line 328
SnapshotReturn ==
    /\ pc = "in_snapshot_download"
    /\ events' = send_complete(events, [snapshot_path |-> SnapshotPath,
                                        file_count |-> file_count_of(disk),
                                        total_size |-> total_size_of(disk),
                                        repo_id |-> args.repo_id[1]])
    /\ ret' = ReturnInt(0)
    /\ collab' = "returned"
    /\ pc' = "returned"
    /\ UNCHANGED <<hf_installed, HF_AVAILABLE, argv, args, environ, disk, calls,
                   ops, exit_code>>

\* lines 225-227, snapshot_download raised
SnapshotRaise ==
    /\ pc = "in_snapshot_download"
    /\ collab' = "raised"
    /\ \E e \in Errors : Reraise(e)

\* lines 225-227, os.path.getsize of line 209 raised (the file went away
\* between the test of line 208 and line 209)
SnapshotInspectRaise ==
    /\ pc = "in_snapshot_download"
    /\ CountedFiles(disk) # <<>>
    /\ collab' = "returned"
    /\ \E e \in OSErrors : Reraise(e)

\* the test of lines 331-332 made only after the start event is written
FilenameRequiredAfterStart ==
    /\ pc = "dispatch"
    /\ ~args.url_only
    /\ ~args.snapshot
    /\ ~Truthy(args.filename)
    /\ events' = send_progress(events, "start",
                               [repo_id |-> args.repo_id[1],
                                filename |-> args.filename,
                                revision |-> args.revision])
    /\ exit_code' = Some(ParserErrorStatus)
    /\ pc' = "exited"
    /\ UNCHANGED <<hf_installed, HF_AVAILABLE, argv, args, environ, disk, calls,
                   ops, collab, ret>>

\* lines 331-332
FilenameRequired ==
    /\ pc = "dispatch"
    /\ ~args.url_only
    /\ ~args.snapshot
    /\ ~Truthy(args.filename)
    /\ ParserError

\* lines 334-341 and download_single_file up to the call of line 134
SingleFileBegin ==
    /\ pc = "dispatch"
    /\ ~args.url_only
    /\ ~args.snapshot
    /\ Truthy(args.filename)
    /\ ops' = Append(ops, "download_single_file")
    /\ events' = send_progress(events, "start",
                               [repo_id |-> args.repo_id[1],
                                filename |-> args.filename[1],
                                revision |-> args.revision])
    /\ calls' = Append(calls,
                       [fn |-> "hf_hub_download",
                        kwargs |-> single_file_kwargs(args.repo_id[1],
                                       args.filename[1], args.dest, args.revision,
                                       args.token, args.cache_dir, None)])
    /\ collab' = "called"
    /\ pc' = "in_hf_hub_download"
    /\ UNCHANGED <<hf_installed, HF_AVAILABLE, argv, args, environ, disk, ret,
                   exit_code>>

\* lines 136-149 and the return of line 343
SingleFileReturn ==
    /\ pc = "in_hf_hub_download"
    /\ \E f \in FileResults :
          events' = send_complete(events,
                        [file_path |-> FilePath,
                         file_size |-> IF exists(f) THEN getsize(f) ELSE 0,
                         repo_id |-> args.repo_id[1],
                         filename |-> args.filename[1]])
    /\ ret' = ReturnInt(0)
    /\ collab' = "returned"
    /\ pc' = "returned"
    /\ UNCHANGED <<hf_installed, HF_AVAILABLE, argv, args, environ, disk, calls,
                   ops, exit_code>>

\* lines 151-153, hf_hub_download raised
SingleFileRaise ==
    /\ pc = "in_hf_hub_download"
    /\ collab' = "raised"
    /\ \E e \in Errors : Reraise(e)

\* lines 151-153, os.path.getsize of line 137 raised (the file went away
\* after os.path.exists saw it)
SingleFileInspectRaise ==
    /\ pc = "in_hf_hub_download"
    /\ collab' = "returned"
    /\ \E e \in OSErrors : Reraise(e)

\* line 347: sys.exit(main()) when main returned
SysExit ==
    /\ pc = "returned"
    /\ exit_code' = Some(SysExitStatus(ret))
    /\ pc' = "exited"
    /\ UNCHANGED <<hf_installed, HF_AVAILABLE, argv, args, environ, disk, events,
                   calls, ops, collab, ret>>

\* line 347: main raised, the interpreter prints the traceback and exits
UncaughtException ==
    /\ pc = "raised"
    /\ exit_code' = Some(UncaughtStatus)
    /\ pc' = "exited"
    /\ UNCHANGED <<hf_installed, HF_AVAILABLE, argv, args, environ, disk, events,
                   calls, ops, collab, ret>>

Next ==
    \/ ImportOk
    \/ ImportFail
    \/ CheckMode
    \/ RepoIdRequired
    \/ ResolveDefaults
    \/ UrlOnlyFilenameRequired
    \/ GetFileUrlCall
    \/ GetFileUrlReturn
    \/ GetFileUrlRaise
    \/ SnapshotBegin
    \/ SnapshotReturn
    \/ SnapshotRaise
    \/ SnapshotInspectRaise
    \/ FilenameRequired
    \/ SingleFileBegin
    \/ SingleFileReturn
    \/ SingleFileRaise
    \/ SingleFileInspectRaise
    \/ SysExit
    \/ UncaughtException

Spec == Init /\ [][Next]_vars

\* the runs that exercise the directory walk: every flag combination, no
\* optional parameter, an empty environment, every tree
ArgvsWalk ==
    [check : Flags, url_only : Flags, snapshot : Flags,
     repo_id : RepoIds, filename : Filenames, dest : {None},
     revision : {"main"}, token : {None}, cache_dir : {None},
     allow_patterns : {None}, ignore_patterns : {None}]

EnvironsWalk ==
    [HF_TOKEN : {None}, HF_HUB_CACHE : {None}, HUGGINGFACE_HUB_CACHE : {None}]

InitWalk == InitWith(ArgvsWalk, EnvironsWalk, Trees)

SpecWalk == InitWalk /\ [][Next]_vars

----------------------------------------------------------------------------
(* Vocabulary of the properties *)

Exited == pc = "exited"

Count(evs, t) == Cardinality({i \in 1..Len(evs) : evs[i].type = t})

IsTerminal(ev) == ev.type \in {"complete", "error"}

\* the flag combinations main() rejects with parser.error
UsageError(a) ==
    /\ ~a.check
    /\ \/ ~Truthy(a.repo_id)
       \/ a.url_only /\ ~Truthy(a.filename)
       \/ ~a.url_only /\ ~a.snapshot /\ ~Truthy(a.filename)

\* the operation the flags select
SelectedOp(a) ==
    IF a.check THEN "check_available"
    ELSE IF a.url_only THEN "get_file_url"
    ELSE IF a.snapshot THEN "download_snapshot"
    ELSE "download_single_file"

DownloadCalls ==
    {i \in 1..Len(calls) : calls[i].fn \in {"hf_hub_download", "snapshot_download"}}

\* a value that is empty counts as no value
NoneIfEmpty(v) == IF Truthy(v) THEN v ELSE None

\* the regular (non-symlink) files in the directory tree rooted at n, links
\* not followed: their number and the sum of their sizes
RECURSIVE RegularFileCount(_)
RECURSIVE RegularFileCountAll(_)
RegularFileCount(n) ==
    CASE n.kind = "file" -> 1
      [] n.kind = "dir"  -> RegularFileCountAll(n.entries)
      [] OTHER           -> 0
RegularFileCountAll(es) ==
    IF es = <<>> THEN 0 ELSE RegularFileCount(Head(es)) + RegularFileCountAll(Tail(es))

RECURSIVE RegularFileBytes(_)
RECURSIVE RegularFileBytesAll(_)
RegularFileBytes(n) ==
    CASE n.kind = "file" -> n.size
      [] n.kind = "dir"  -> RegularFileBytesAll(n.entries)
      [] OTHER           -> 0
RegularFileBytesAll(es) ==
    IF es = <<>> THEN 0 ELSE RegularFileBytes(Head(es)) + RegularFileBytesAll(Tail(es))

----------------------------------------------------------------------------
(* The properties *)

\* C1: a run whose operation finished (its "complete" event is written) and
\* in which huggingface_hub did not raise exits with status 0, whichever of
\* the four operations ran.
C1_SuccessExitsZero ==
    (Exited /\ ops # <<>> /\ collab # "raised" /\ Count(events, "complete") = 1)
        => exit_code = Some(0)

\* C2: in a run that entered an operation, "start" can only be the first
\* event, a terminal event ("complete" or "error") can only be the last one,
\* every event in between is "progress", and once the operation is over
\* there is a terminal event: so at most one start, exactly one terminal
\* event, never both kinds, nothing after it.
C2_EventOrder ==
    ops # <<>> =>
        /\ \A i \in 1..Len(events) :
              /\ events[i].type \in {"start", "progress", "complete", "error"}
              /\ events[i].type = "start" => i = 1
              /\ IsTerminal(events[i]) => i = Len(events)
        /\ pc \in {"returned", "raised", "exited"} =>
              /\ events # <<>>
              /\ IsTerminal(events[Len(events)])
              /\ Count(events, "complete") + Count(events, "error") = 1

C2_Witness ==
    /\ Exited
    /\ ops = <<"download_snapshot">>
    /\ Len(events) = 2
    /\ events[1].type = "start"
    /\ events[2].type = "error"

\* C3: when huggingface_hub raised, the run ends with exactly one "error"
\* event, no "complete" event and a non-zero exit status.
C3_RaiseReported ==
    (Exited /\ collab = "raised") =>
        /\ Count(events, "error") = 1
        /\ Count(events, "complete") = 0
        /\ exit_code # None
        /\ exit_code # Some(0)

C3_Witness ==
    /\ Exited
    /\ collab = "raised"
    /\ ops = <<"get_file_url">>
    /\ exit_code = Some(UncaughtStatus)

\* C4: a run with --check ends with exactly one event, a "complete", and
\* exit status 0, whether or not huggingface_hub is installed.
C4_CheckAlwaysCompletes ==
    (Exited /\ argv.check) =>
        /\ Len(events) = 1
        /\ events[1].type = "complete"
        /\ exit_code = Some(0)

\* C5: the call of hf_hub_download receives the repo id, the filename, the
\* revision, and each of token, cache directory and destination that the
\* command line supplied (non-empty), the destination as local_dir.
C5_SingleFilePassThrough ==
    \A i \in 1..Len(calls) :
        calls[i].fn = "hf_hub_download" =>
            /\ calls[i].kwargs["repo_id"] = argv.repo_id[1]
            /\ calls[i].kwargs["filename"] = argv.filename[1]
            /\ calls[i].kwargs["revision"] = argv.revision
            /\ Truthy(argv.token) => Passed(calls[i], "token") = argv.token
            /\ Truthy(argv.cache_dir) => Passed(calls[i], "cache_dir") = argv.cache_dir
            /\ Truthy(argv.dest) => Passed(calls[i], "local_dir") = argv.dest

\* C6: a run whose flags are a usage error writes no event, calls nothing of
\* huggingface_hub, enters no operation, and exits with a non-zero status.
C6_UsageErrorSilent ==
    UsageError(argv) =>
        /\ events = <<>>
        /\ calls = <<>>
        /\ ops = <<>>
        /\ Exited => (exit_code # None /\ exit_code # Some(0))

C6_Witness ==
    /\ Exited
    /\ hf_installed
    /\ UsageError(argv)
    /\ argv.repo_id # None
    /\ exit_code = Some(ParserErrorStatus)

\* C7: the "complete" event of a snapshot download reports as file_count the
\* number of regular (non-symlink) files of the directory tree at the
\* returned path and as total_size the sum of their sizes.
C7_SnapshotAggregates ==
    \A i \in 1..Len(events) :
        (events[i].type = "complete" /\ ops = <<"download_snapshot">>) =>
            /\ events[i].data.file_count = RegularFileCount(Resolve(disk))
            /\ events[i].data.total_size = RegularFileBytes(Resolve(disk))

C7_Witness ==
    /\ Exited
    /\ ops = <<"download_snapshot">>
    /\ Count(events, "complete") = 1
    /\ disk = Dir(<<Link(Dir(<<File(1)>>)), Link(Missing), File(2)>>)
    /\ events[2].data.file_count = 1
    /\ events[2].data.total_size = 2

\* C8 as claimed: with --cache-dir omitted, the cache_dir a download call
\* receives is HF_HUB_CACHE when that variable is set, whatever its value,
\* else HUGGINGFACE_HUB_CACHE when set, else none (an empty value passed on
\* counting as none).
C8_FirstSetWins ==
    \A i \in DownloadCalls :
        argv.cache_dir = None =>
            Passed(calls[i], "cache_dir") =
                NoneIfEmpty(IF environ.HF_HUB_CACHE # None
                            THEN environ.HF_HUB_CACHE
                            ELSE environ.HUGGINGFACE_HUB_CACHE)

\* C8 amended: with --cache-dir omitted, the cache_dir a download call
\* receives is HF_HUB_CACHE when that variable is set and not empty, else
\* HUGGINGFACE_HUB_CACHE when set and not empty, else none is passed.
C8_FirstNonEmptyWins ==
    \A i \in DownloadCalls :
        argv.cache_dir = None =>
            Passed(calls[i], "cache_dir") =
                IF Truthy(environ.HF_HUB_CACHE) THEN environ.HF_HUB_CACHE
                ELSE IF Truthy(environ.HUGGINGFACE_HUB_CACHE)
                     THEN environ.HUGGINGFACE_HUB_CACHE
                     ELSE None

C8_Witness ==
    /\ DownloadCalls # {}
    /\ argv.cache_dir = None
    /\ environ.HF_HUB_CACHE = Some("")
    /\ environ.HUGGINGFACE_HUB_CACHE = Some("/legacy-cache")
    /\ Passed(calls[1], "cache_dir") = Some("/legacy-cache")

\* C9 as claimed: with --token omitted a download call receives HF_TOKEN as
\* token, and none when HF_TOKEN is unset; with --token supplied it receives
\* the supplied value (an empty value passed on counting as none).
C9_TokenAsClaimed ==
    \A i \in DownloadCalls :
        Passed(calls[i], "token") =
            NoneIfEmpty(IF argv.token = None THEN environ.HF_TOKEN ELSE argv.token)

\* C9 amended: with --token omitted or empty a download call receives
\* HF_TOKEN as token when that variable is set and not empty, and no token
\* otherwise; with a non-empty --token it receives the supplied value.
C9_TokenResolution ==
    \A i \in DownloadCalls :
        Passed(calls[i], "token") =
            IF Truthy(argv.token) THEN argv.token
            ELSE IF Truthy(environ.HF_TOKEN) THEN environ.HF_TOKEN
            ELSE None

C9_Witness ==
    /\ DownloadCalls # {}
    /\ argv.token = None
    /\ environ.HF_TOKEN = Some("env-token")
    /\ Passed(calls[1], "token") = Some("env-token")

\* C10: a run that is not a usage error executes exactly one of the four
\* operations, the one its flags select, and calls huggingface_hub at most
\* once.
C10_ExactlyOneMode ==
    (Exited /\ ~UsageError(argv)) =>
        /\ ops = <<SelectedOp(argv)>>
        /\ Len(calls) <= 1

====
